---- MODULE Spec2Model ----
(***************************************************************************)
(* Model of osu-fantasy's scoring pipeline:                                *)
(*   backend/app/calculate_pscores.py      (extractor, aggregator, main)   *)
(*   backend/app/update_costs_by_pscore.py (cost reallocation)             *)
(*                                                                         *)
(* Python floats are binary floating-point numbers with round-to-nearest,  *)
(* ties-to-even.  The model keeps that arithmetic and its rounding, with   *)
(* Prec significand bits instead of CPython's 53 and an unbounded          *)
(* exponent.  A float is a pair <<m, e>> of value m * 2^e, m odd or zero,  *)
(* |m| < 2^Prec.  Python ints are TLA+ integers.                           *)
(***************************************************************************)
EXTENDS Integers, Sequences, FiniteSets, TLC

VARIABLES
    compensated,    \* whether builtin sum() compensates float sums (CPython >= 3.12)
    call,           \* arguments of the update_costs call under study
    ret,            \* what that call returned
    db,             \* the player table: row id -> row
    snaps,          \* the table at the start and after every finished script
    ops,            \* the finished scripts: ops[k] took snaps[k] to snaps[k+1]
    match_ids,      \* the match identifiers given to calculate_pscores.py
    run,            \* which pass over the pipeline is running
    pc,             \* "main", "costs" or "done"
    pos,            \* matches of match_ids already handled by main's loop
    all_match_pscores,  \* main's list of non-empty per-match results
    processed       \* main's loop so far: what became of each match

mainVars == <<match_ids, run, pc, pos, processed>>
vars == <<compensated, call, ret, db, snaps, ops, match_ids, run, pc, pos,
          all_match_pscores, processed>>

\* ------------------------------------------------------------------ bounds
Prec == 13          \* significand bits of the modelled float
MaxPlayers == 2     \* longest argument list passed to update_costs
MaxMatches == 2     \* most match identifiers given to one run of main
MaxAggMatches == 3  \* longest match_pscores list given to update_player_pscores
MaxRows == 2        \* rows of the table update_database_costs is run on

\* ------------------------------------------------------- program constants
DEFAULT_MAX_COST == 11000
MIN_COST == 5000

\* ------------------------------------------------------------- float model
Abs(x) == IF x < 0 THEN -x ELSE x
Sgn(x) == IF x < 0 THEN -1 ELSE IF x = 0 THEN 0 ELSE 1
MinI(a, b) == IF a < b THEN a ELSE b
MaxI(a, b) == IF a > b THEN a ELSE b

RECURSIVE Pow2(_)
Pow2(n) == IF n = 0 THEN 1 ELSE 2 * Pow2(n - 1)

RECURSIVE BitLen(_)
BitLen(n) == IF n = 0 THEN 0 ELSE 1 + BitLen(n \div 2)

Zero == <<0, 0>>

\* canonical form of m * 2^e
RECURSIVE Norm(_, _)
Norm(m, e) ==
    IF m = 0 THEN Zero
    ELSE IF m % 2 = 0 THEN Norm(m \div 2, e + 1)
    ELSE <<m, e>>

\* the float nearest to m * 2^e, ties to even
RoundP(m, e) ==
    LET a == Abs(m)
        s == BitLen(a) - Prec
    IN  IF s <= 0 THEN Norm(m, e)
        ELSE LET q == a \div Pow2(s)
                 r == a % Pow2(s)
                 half == Pow2(s - 1)
                 up == r > half \/ (r = half /\ q % 2 = 1)
             IN  Norm(Sgn(m) * (IF up THEN q + 1 ELSE q), e + s)

\* float(n) for a Python int n
FromInt(n) == RoundP(n, 0)

\* position of the leading bit
Top(a) == a[2] + BitLen(Abs(a[1]))

FNeg(a) == <<-a[1], a[2]>>

FAdd(a, b) ==
    IF a[1] = 0 THEN b
    ELSE IF b[1] = 0 THEN a
    ELSE IF Top(a) - Top(b) >= Prec + 2 THEN a
    ELSE IF Top(b) - Top(a) >= Prec + 2 THEN b
    ELSE LET e == MinI(a[2], b[2])
         IN  RoundP(a[1] * Pow2(a[2] - e) + b[1] * Pow2(b[2] - e), e)

FSub(a, b) == FAdd(a, FNeg(b))

FMul(a, b) == RoundP(a[1] * b[1], a[2] + b[2])

\* a / b for b # 0: the quotient to Prec + 2 bits and a sticky bit, rounded
FDiv(a, b) ==
    IF a[1] = 0 THEN Zero
    ELSE LET A == Abs(a[1])
             B == Abs(b[1])
             k == MaxI(0, Prec + 2 + BitLen(B) - BitLen(A))
             N == A * Pow2(k)
             Q == N \div B
             R == N % B
             sg == Sgn(a[1]) * Sgn(b[1])
         IN  IF R = 0 THEN RoundP(sg * Q, a[2] - b[2] - k)
             ELSE RoundP(sg * (2 * Q + 1), a[2] - b[2] - k - 1)

\* exact comparisons (the sign of a rounded difference is the exact sign)
FLt(a, b) == FSub(a, b)[1] < 0
FLe(a, b) == FSub(a, b)[1] <= 0
FGt(a, b) == FLt(b, a)
FGe(a, b) == FLe(b, a)
FAbs(a) == <<Abs(a[1]), a[2]>>

\* math.floor(a) as a Python int
Floor(a) ==
    IF a[2] >= 0 THEN a[1] * Pow2(a[2])
    ELSE IF -a[2] >= BitLen(Abs(a[1])) THEN (IF a[1] < 0 THEN -1 ELSE 0)
    ELSE a[1] \div Pow2(-a[2])

\* the float written n/d in decimal source text (0.3 is Lit(3, 10))
Lit(n, d) == FDiv(FromInt(n), FromInt(d))

One == FromInt(1)

RECURSIVE ISqrt(_)
ISqrt(n) ==
    IF n < 2 THEN n
    ELSE LET r == 2 * ISqrt(n \div 4)
         IN  IF (r + 1) * (r + 1) <= n THEN r + 1 ELSE r

\* math.sqrt(a) for a >= 0: the root to Prec + 1 bits and a sticky bit, rounded
FSqrt(a) ==
    IF a[1] = 0 THEN Zero
    ELSE LET L == BitLen(a[1])
             s0 == 2 * Prec + 1 - L
             s == IF (a[2] - s0) % 2 = 0 THEN s0 ELSE s0 + 1
             M == a[1] * Pow2(s)
             q == ISqrt(M)
         IN  IF q * q = M THEN RoundP(q, (a[2] - s) \div 2)
             ELSE RoundP(2 * q + 1, ((a[2] - s) \div 2) - 1)

\* a Python int where a float or an int may stand (exact, never rounded)
IntF(n) == Norm(n, 0)

\* ------------------------------------------------------------ Python sums
RECURSIVE SumInt(_)
SumInt(s) == IF s = <<>> THEN 0 ELSE s[1] + SumInt(Tail(s))

\* sum(xs) of floats, CPython <= 3.11: left to right from the int 0
RECURSIVE PlainSum(_, _)
PlainSum(xs, f) == IF xs = <<>> THEN f ELSE PlainSum(Tail(xs), FAdd(f, xs[1]))

\* sum(xs) of floats, CPython >= 3.12: Neumaier's compensated summation
RECURSIVE NeumaierSum(_, _, _)
NeumaierSum(xs, f, c) ==
    IF xs = <<>> THEN (IF c[1] # 0 THEN FAdd(f, c) ELSE f)
    ELSE LET x == xs[1]
             t == FAdd(f, x)
             d == IF FGe(FAbs(f), FAbs(x)) THEN FAdd(FSub(f, t), x)
                  ELSE FAdd(FSub(x, t), f)
         IN  NeumaierSum(Tail(xs), t, FAdd(c, d))

PySum(xs) == IF compensated THEN NeumaierSum(xs, Zero, Zero) ELSE PlainSum(xs, Zero)

\* ------------------------------------------- update_costs_by_pscore.py
round_down_to_100(value) == Floor(FDiv(value, IntF(100))) * 100

\* calculate_player_value with the near-average slope below 0.9 as well
calculate_player_value_gentle_below(pscore, avg_pscore) ==
    LET piecewise(ratio) ==
            IF FGe(ratio, Lit(16, 10)) THEN FAdd(One, FMul(FSub(ratio, One), Lit(5, 10)))
            ELSE IF FGe(ratio, Lit(13, 10)) THEN FAdd(One, FMul(FSub(ratio, One), Lit(3, 10)))
            ELSE IF FGe(ratio, Lit(11, 10)) THEN FAdd(One, FMul(FSub(ratio, One), Lit(18, 100)))
            ELSE FAdd(One, FMul(FSub(ratio, One), Lit(8, 100)))
    IN  piecewise(IF FGt(avg_pscore, Zero) THEN FDiv(pscore, avg_pscore) ELSE One)

calculate_player_value(pscore, avg_pscore) ==
    LET piecewise(ratio) ==
            IF FGe(ratio, Lit(16, 10)) THEN FAdd(One, FMul(FSub(ratio, One), Lit(5, 10)))
            ELSE IF FGe(ratio, Lit(13, 10)) THEN FAdd(One, FMul(FSub(ratio, One), Lit(3, 10)))
            ELSE IF FGe(ratio, Lit(11, 10)) THEN FAdd(One, FMul(FSub(ratio, One), Lit(18, 100)))
            ELSE IF FGe(ratio, Lit(9, 10)) THEN FAdd(One, FMul(FSub(ratio, One), Lit(8, 100)))
            ELSE FAdd(One, FMul(FSub(ratio, One), Lit(25, 100)))
    IN  piecewise(IF FGt(avg_pscore, Zero) THEN FDiv(pscore, avg_pscore) ELSE One)

\* lines 96-106: cap, floor, round down
clamp_and_round(target, max_cost) ==
    LET capped == IF FLt(IntF(max_cost), target) THEN IntF(max_cost) ELSE target
        price == IF FGt(capped, IntF(MIN_COST)) THEN capped ELSE IntF(MIN_COST)
    IN  round_down_to_100(price)

\* lines 88-91: the equal split when the weights sum to zero
fallback_split(n, total_budget, max_cost) ==
    LET equal_share == round_down_to_100(FDiv(IntF(total_budget), IntF(n)))
    IN  [new_costs |-> [i \in 1..n |-> MaxI(MIN_COST, MinI(equal_share, max_cost))],
         total_market_value |-> equal_share * n,
         path |-> "fallback"]

NoRet == [new_costs |-> <<>>, total_market_value |-> 0, path |-> "none"]

\* line 82
multipliers_of(pscores, avg_pscore) ==
    [k \in 1..Len(pscores) |-> calculate_player_value(pscores[k], avg_pscore)]

\* line 85: zip stops at the shorter list
weights_of(multipliers, current_costs) ==
    [k \in 1..MinI(Len(multipliers), Len(current_costs)) |->
        FMul(multipliers[k], FromInt(current_costs[k]))]

\* line 94
target_shares_of(weights, total_weight, total_budget) ==
    [k \in 1..Len(weights) |-> FMul(FromInt(total_budget), FDiv(weights[k], total_weight))]

\* lines 96-108
proportional_split(target_shares, max_cost) ==
    LET sums(new_costs) == [new_costs |-> new_costs,
                            total_market_value |-> SumInt(new_costs),
                            path |-> "proportional"]
    IN  sums([k \in 1..Len(target_shares) |-> clamp_and_round(target_shares[k], max_cost)])

update_costs(current_costs, pscores, total_budget, max_cost) ==
    LET n == Len(current_costs)
        split(weights, total_weight) ==
            IF total_weight = Zero THEN fallback_split(n, total_budget, max_cost)
            ELSE proportional_split(target_shares_of(weights, total_weight, total_budget),
                                    max_cost)
        weigh(weights) == split(weights, PySum(weights))
    IN  IF n = 0 THEN [new_costs |-> <<>>, total_market_value |-> 0, path |-> "empty"]
        ELSE weigh(weights_of(multipliers_of(pscores, FDiv(PySum(pscores), FromInt(n))),
                              current_costs))

\* ------------------------------------------------- calculate_pscores.py
None == <<>>            \* SQL NULL / Python None
Some(v) == <<v>>

RECURSIVE Concat(_)
Concat(ss) == IF ss = <<>> THEN <<>> ELSE ss[1] \o Concat(Tail(ss))

RECURSIVE Insert(_, _)
Insert(x, s) ==
    IF s = <<>> THEN <<x>>
    ELSE IF x <= s[1] THEN <<x>> \o s
    ELSE <<s[1]>> \o Insert(x, Tail(s))

RECURSIVE Sorted(_)
Sorted(s) == IF s = <<>> THEN <<>> ELSE Insert(s[1], Sorted(Tail(s)))

\* statistics.median of a non-empty list of ints
median(data) ==
    LET d == Sorted(data)
        n == Len(d)
        i == n \div 2
    IN  IF n % 2 = 1 THEN IntF(d[i + 1])
        ELSE FDiv(IntF(d[i] + d[i + 1]), IntF(2))

\* line 95: the events that carry a game
games_of(match_data) == SelectSeq(match_data.events, LAMBDA ev : ev.kind = "game")

\* lines 104-111: one count per score entry that names a user
counted_scores(games) ==
    SelectSeq(Concat([g \in 1..Len(games) |-> games[g].scores]),
              LAMBDA sd : sd.user_id # 0)

\* line 118: statistics.mean of the per-player map counts
N_mean_of(games) ==
    LET c == counted_scores(games)
        users == {c[k].user_id : k \in 1..Len(c)}
    IN  FDiv(IntF(Len(c)), IntF(Cardinality(users)))

\* lines 123-147: the score/median ratios one map contributes
map_ratios(scores) ==
    LET nz == SelectSeq(scores, LAMBDA sd : sd.score # 0)
        map_scores == [k \in 1..Len(nz) |-> nz[k].score]
        median_score == median(map_scores)
        valid == SelectSeq(scores, LAMBDA sd : sd.user_id # 0 /\ sd.score # 0)
    IN  IF map_scores = <<>> THEN <<>>
        ELSE IF median_score = Zero THEN <<>>
        ELSE [k \in 1..Len(valid) |->
                 [user_id |-> valid[k].user_id,
                  ratio |-> FDiv(IntF(valid[k].score), median_score)]]

\* the keys of player_scores in insertion order
RECURSIVE FirstSeen(_, _)
FirstSeen(rs, acc) ==
    IF rs = <<>> THEN acc
    ELSE FirstSeen(Tail(rs),
                   IF \E k \in 1..Len(acc) : acc[k] = rs[1].user_id THEN acc
                   ELSE Append(acc, rs[1].user_id))

NoResults == [raised |-> FALSE, results |-> <<>>]

\* lines 118-167: the per-player results of a match that has games and
\* counted players, as a sequence of entries in the dict's insertion order
match_results(match_data) ==
    LET total_maps == Len(games_of(match_data))
        entry(user_id, score_ratios, N_mean) ==
            [user_id |-> user_id,
             pscore |-> FMul(FDiv(PySum(score_ratios), FromInt(Len(score_ratios))),
                             IF FGt(N_mean, Zero)
                             THEN FSqrt(FDiv(IntF(Len(score_ratios)), N_mean)) ELSE One),
             maps_played |-> Len(score_ratios), total_maps |-> total_maps]
        ratios_of(rs, user_id) ==
            LET mine == SelectSeq(rs, LAMBDA r : r.user_id = user_id)
            IN  [k \in 1..Len(mine) |-> mine[k].ratio]
        results(rs, order, N_mean) ==
            [k \in 1..Len(order) |-> entry(order[k], ratios_of(rs, order[k]), N_mean)]
        per_player(rs) == results(rs, FirstSeen(rs, <<>>), N_mean_of(games_of(match_data)))
    IN  per_player(Concat([g \in 1..Len(games_of(match_data)) |->
                              map_ratios(games_of(match_data)[g].scores)]))

\* calculate_match_pscore raising where it returns no results
calculate_match_pscore_raising_on_empty(match_data) ==
    LET checked(results) == [raised |-> results = <<>>, results |-> results]
    IN  IF \E k \in 1..Len(match_data.events) : match_data.events[k].kind = "malformed"
        THEN [raised |-> TRUE, results |-> <<>>]
        ELSE IF games_of(match_data) = <<>> \/ counted_scores(games_of(match_data)) = <<>>
        THEN [raised |-> TRUE, results |-> <<>>]
        ELSE checked(match_results(match_data))

\* raised is TRUE when the call ends in an exception (an event that is no
\* dict has no .get)
calculate_match_pscore(match_data) ==
    IF \E k \in 1..Len(match_data.events) : match_data.events[k].kind = "malformed"
    THEN [raised |-> TRUE, results |-> <<>>]
    ELSE IF games_of(match_data) = <<>> THEN NoResults
    ELSE IF counted_scores(games_of(match_data)) = <<>> THEN NoResults
    ELSE [raised |-> FALSE, results |-> match_results(match_data)]

\* str(u) is a prefix of str(v): what LIKE '%/users/<u>%' accepts of a
\* profile_url ending in /users/<v>
RECURSIVE IsDecPrefix(_, _)
IsDecPrefix(u, v) == u = v \/ (v >= 10 /\ IsDecPrefix(u, v \div 10))

\* the first matching row's id, 0 for None
get_user_id_by_profile_url(table, user_id) ==
    LET hits == {r \in DOMAIN table : IsDecPrefix(user_id, table[r].profile)}
    IN  IF hits = {} THEN 0 ELSE CHOOSE r \in hits : \A q \in hits : r <= q

\* resolved_entries giving up at the first entry without a row
resolved_entries_until_unresolved(table, match_pscores) ==
    LET es == Concat(match_pscores)
        withid == [k \in 1..Len(es) |->
                      [db_id |-> get_user_id_by_profile_url(table, es[k].user_id),
                       pscore |-> es[k].pscore, maps_played |-> es[k].maps_played]]
        stop == IF \A k \in 1..Len(es) : withid[k].db_id # 0 THEN Len(es)
                ELSE (CHOOSE k \in 1..Len(es) :
                         /\ withid[k].db_id = 0
                         /\ \A j \in 1..(k - 1) : withid[j].db_id # 0) - 1
    IN  SubSeq(withid, 1, stop)

\* lines 230-236: the entries of all matches in order, each with its row id,
\* those without one skipped
resolved_entries(table, match_pscores) ==
    LET es == Concat(match_pscores)
        withid == [k \in 1..Len(es) |->
                      [db_id |-> get_user_id_by_profile_url(table, es[k].user_id),
                       pscore |-> es[k].pscore, maps_played |-> es[k].maps_played]]
    IN  SelectSeq(withid, LAMBDA e : e.db_id # 0)

\* lines 238-242: player_data after folding the entries in
RECURSIVE aggregate(_, _)
aggregate(es, player_data) ==
    IF es = <<>> THEN player_data
    ELSE LET e == es[1]
             old == IF e.db_id \in DOMAIN player_data THEN player_data[e.db_id]
                    ELSE [pscores |-> <<>>, matches |-> 0, total_maps |-> 0]
             new == [pscores |-> Append(old.pscores, <<e.pscore, e.maps_played>>),
                     matches |-> old.matches + 1,
                     total_maps |-> old.total_maps + e.maps_played]
         IN  aggregate(Tail(es),
                       [k \in DOMAIN player_data \cup {e.db_id} |->
                           IF k = e.db_id THEN new ELSE player_data[k]])

total_weight_of(pscores) == SumInt([k \in 1..Len(pscores) |-> pscores[k][2]])

\* weighted_mean without the weights
weighted_mean_unweighted(pscores) ==
    FDiv(PySum([k \in 1..Len(pscores) |-> pscores[k][1]]), FromInt(Len(pscores)))

\* line 257
weighted_mean(pscores) ==
    FDiv(PySum([k \in 1..Len(pscores) |-> FMul(pscores[k][1], FromInt(pscores[k][2]))]),
         FromInt(total_weight_of(pscores)))

\* update_player_pscores adding the new counts to the stored ones
update_player_pscores_accumulating(table, match_pscores) ==
    LET player_data == aggregate(resolved_entries(table, match_pscores), <<>>)
        stored(cell) == IF cell = None THEN 0 ELSE cell[1]
    IN  [r \in DOMAIN table |->
            IF /\ r \in DOMAIN player_data
               /\ player_data[r].pscores # <<>>
               /\ total_weight_of(player_data[r].pscores) # 0
            THEN [table[r] EXCEPT !.p_score = Some(weighted_mean(player_data[r].pscores)),
                                  !.matches_played =
                                      Some(stored(table[r].matches_played)
                                           + player_data[r].matches),
                                  !.total_maps_played =
                                      Some(stored(table[r].total_maps_played)
                                           + player_data[r].total_maps)]
            ELSE table[r]]

\* the table after update_player_pscores(conn, match_pscores)
update_player_pscores(table, match_pscores) ==
    LET player_data == aggregate(resolved_entries(table, match_pscores), <<>>)
    IN  [r \in DOMAIN table |->
            IF /\ r \in DOMAIN player_data
               /\ player_data[r].pscores # <<>>
               /\ total_weight_of(player_data[r].pscores) # 0
            THEN [table[r] EXCEPT !.p_score = Some(weighted_mean(player_data[r].pscores)),
                                  !.matches_played = Some(player_data[r].matches),
                                  !.total_maps_played = Some(player_data[r].total_maps)]
            ELSE table[r]]

\* ------------------------------- update_costs_by_pscore.py, the database
\* players_with_pscores without the matches_played condition
players_with_pscores_any_matches(table) ==
    SelectSeq([r \in 1..Len(table) |-> r],
              LAMBDA r : /\ table[r].p_score # None
                         /\ FGt(table[r].p_score[1], Zero))

\* lines 132-136: ids of the rows with a positive p_score and matches_played
players_with_pscores(table) ==
    SelectSeq([r \in 1..Len(table) |-> r],
              LAMBDA r : /\ table[r].p_score # None
                         /\ FGt(table[r].p_score[1], Zero)
                         /\ table[r].matches_played # None
                         /\ table[r].matches_played[1] > 0)

\* cost_inputs passing a zero or NULL cost on as 0
cost_inputs_keeping_zero(table) ==
    LET ids(player_ids) ==
            [player_ids |-> player_ids,
             current_costs |-> [k \in 1..Len(player_ids) |->
                                   IF table[player_ids[k]].cost # None
                                   THEN table[player_ids[k]].cost[1] ELSE 0],
             pscores |-> [k \in 1..Len(player_ids) |-> table[player_ids[k]].p_score[1]]]
        budget(inputs) ==
            [player_ids |-> inputs.player_ids, current_costs |-> inputs.current_costs,
             pscores |-> inputs.pscores, total_budget |-> SumInt(inputs.current_costs)]
    IN  budget(ids(players_with_pscores(table)))

\* lines 143-152: the arguments update_costs is called with
cost_inputs(table) ==
    LET ids(player_ids) ==
            [player_ids |-> player_ids,
             current_costs |-> [k \in 1..Len(player_ids) |->
                                   IF /\ table[player_ids[k]].cost # None
                                      /\ table[player_ids[k]].cost[1] # 0
                                   THEN table[player_ids[k]].cost[1] ELSE MIN_COST],
             pscores |-> [k \in 1..Len(player_ids) |-> table[player_ids[k]].p_score[1]]]
        budget(inputs) ==
            [player_ids |-> inputs.player_ids, current_costs |-> inputs.current_costs,
             pscores |-> inputs.pscores, total_budget |-> SumInt(inputs.current_costs)]
    IN  budget(ids(players_with_pscores(table)))

\* lines 179-188
write_costs(table, player_ids, new_costs) ==
    [r \in DOMAIN table |->
        IF \E k \in 1..Len(player_ids) : player_ids[k] = r
        THEN [table[r] EXCEPT !.cost =
                 Some(new_costs[CHOOSE k \in 1..Len(player_ids) : player_ids[k] = r])]
        ELSE table[r]]

\* lines 155-188 for given inputs
reallocate(table, inputs, max_cost) ==
    write_costs(table, inputs.player_ids,
                update_costs(inputs.current_costs, inputs.pscores, inputs.total_budget,
                             max_cost).new_costs)

\* update_database_costs writing also on a dry run
update_database_costs_always_writes(table, max_cost, dry_run) ==
    IF Len(table) = 0 THEN table
    ELSE IF players_with_pscores(table) = <<>> THEN table
    ELSE reallocate(table, cost_inputs(table), max_cost)

\* the table after update_database_costs(conn, max_cost, dry_run)
update_database_costs(table, max_cost, dry_run) ==
    IF Len(table) = 0 THEN table
    ELSE IF players_with_pscores(table) = <<>> THEN table
    ELSE IF dry_run THEN table
    ELSE reallocate(table, cost_inputs(table), max_cost)

\* ----------------------------------------- update_costs as a function
\* The arguments update_costs is called with: any costs and p-scores of
\* these values.
CostVals == {0, 6000, 10000}
PscoreVals == {Lit(5, 10), One, FromInt(2)}
BudgetVals == {0, 24000}
MaxCostVals == {DEFAULT_MAX_COST, 10950, 9000}

SeqsUpTo(S, k) == UNION {[1..n -> S] : n \in 0..k}

CostCalls ==
    {[current_costs |-> cs, pscores |-> ps, total_budget |-> tb, max_cost |-> mc] :
        cs \in SeqsUpTo(CostVals, MaxPlayers), ps \in SeqsUpTo(PscoreVals, MaxPlayers),
        tb \in BudgetVals, mc \in MaxCostVals}

NoCall == [current_costs |-> <<>>, pscores |-> <<>>, total_budget |-> 0, max_cost |-> 0]

InitCosts ==
    /\ compensated \in BOOLEAN
    /\ call \in {c \in CostCalls : Len(c.current_costs) = Len(c.pscores)}
    /\ ret = NoRet
    /\ db = <<>> /\ snaps = <<>> /\ ops = <<>>
    /\ match_ids = <<>> /\ run = 0 /\ pc = "call" /\ pos = 0
    /\ all_match_pscores = <<>> /\ processed = <<>>

CallUpdateCosts ==
    /\ ret.path = "none"
    /\ ret' = update_costs(call.current_costs, call.pscores, call.total_budget,
                           call.max_cost)
    /\ UNCHANGED <<compensated, call, db, snaps, ops, all_match_pscores>>
    /\ UNCHANGED mainVars

NextCosts == CallUpdateCosts

SpecCosts == InitCosts /\ [][NextCosts]_vars

\* ------------------------------- update_costs on three players' costs
\* Calls with the costs 10000, 8000 and 6000: any p-scores of PscoreVals.
ExampleCalls ==
    {[current_costs |-> <<10000, 8000, 6000>>, pscores |-> ps, total_budget |-> 24000,
      max_cost |-> mc] : ps \in [1..3 -> PscoreVals], mc \in MaxCostVals}

InitExample ==
    /\ compensated \in BOOLEAN
    /\ call \in ExampleCalls
    /\ ret = NoRet
    /\ db = <<>> /\ snaps = <<>> /\ ops = <<>>
    /\ match_ids = <<>> /\ run = 0 /\ pc = "call" /\ pos = 0
    /\ all_match_pscores = <<>> /\ processed = <<>>

NextExample == CallUpdateCosts

SpecExample == InitExample /\ [][NextExample]_vars

\* ------------------------------------------------ calculate_pscores.main
\* What the match provider answers for each match identifier.
Game(scs) == [kind |-> "game", scores |-> scs]
Other == [kind |-> "other", scores |-> <<>>]
Malformed == [kind |-> "malformed", scores |-> <<>>]
Sc(u, v) == [user_id |-> u, score |-> v]

Provider ==
    << [status |-> 404, events |-> <<>>],
       [status |-> 200, events |-> <<Other>>],
       [status |-> 200, events |-> <<Other, Game(<<Sc(12, 0), Sc(3, 0)>>)>>],
       [status |-> 200, events |->
           <<Game(<<Sc(12, 100), Sc(3, 300), Sc(7, 200)>>), Other,
             Game(<<Sc(12, 500), Sc(3, 0), Sc(7, 250)>>)>>],
       [status |-> 200, events |->
           <<Game(<<Sc(3, 9), Sc(12, 7)>>), Game(<<Sc(12, 3), Sc(3, 2)>>),
             Game(<<Sc(12, 6), Sc(0, 5), Sc(1, 4)>>)>>],
       [status |-> 200, events |-> <<Game(<<Sc(12, 1)>>), Malformed>>] >>

Row(profile, cost, p_score, matches_played, total_maps_played) ==
    [profile |-> profile, cost |-> cost, p_score |-> p_score,
     matches_played |-> matches_played, total_maps_played |-> total_maps_played]

\* The tables the pipeline starts from: users 12 and 3 have rows, user 7 has
\* none; the p_score columns hold their defaults, or NULL beside a NULL cost.
PipelineTables ==
    {<<Row(12, Some(10000), st[1], st[2], st[2]), Row(3, st[3], st[1], st[2], st[2]),
       Row(45, Some(8000), st[1], st[2], st[2])>> :
        st \in {<<Some(Zero), Some(0), Some(6000)>>, <<None, None, None>>}}

NoOp == [name |-> "none", exit |-> 0, fetched |-> <<>>, aggregated |-> <<>>,
         max_cost |-> 0, dry_run |-> FALSE, player_ids |-> <<>>,
         current_costs |-> <<>>, pscores |-> <<>>, total_budget |-> 0]

Init ==
    /\ compensated \in BOOLEAN
    /\ call = NoCall /\ ret = NoRet
    /\ db \in PipelineTables
    /\ snaps = <<db>>
    /\ ops = <<>>
    /\ match_ids \in SeqsUpTo(1..Len(Provider), MaxMatches)
    /\ run = 1 /\ pc = "main" /\ pos = 0
    /\ all_match_pscores = <<>>
    /\ processed = <<>>

\* lines 299-301: no match identifiers, main returns 1
MainNoMatchIds ==
    /\ pc = "main" /\ match_ids = <<>>
    /\ pc' = "costs"
    /\ snaps' = Append(snaps, db)
    /\ ops' = Append(ops, [NoOp EXCEPT !.name = "calculate_pscores", !.exit = 1])
    /\ UNCHANGED <<compensated, call, ret, db, match_ids, run, pos,
                   all_match_pscores, processed>>

\* FetchMatch with an error ending the loop
FetchMatch_stops_on_error ==
    /\ pc = "main" /\ pos < Len(match_ids)
    /\ LET match_id == match_ids[pos + 1]
           response == Provider[match_id]
           got == calculate_match_pscore(response)
       IN  IF response.status # 200 \/ got.raised
           THEN /\ processed' = Append(processed, [match_id |-> match_id, outcome |-> "error"])
                /\ pos' = Len(match_ids)
                /\ UNCHANGED all_match_pscores
           ELSE IF got.results # <<>>
           THEN /\ all_match_pscores' = Append(all_match_pscores, got.results)
                /\ processed' = Append(processed, [match_id |-> match_id, outcome |-> "results"])
                /\ pos' = pos + 1
           ELSE /\ processed' = Append(processed, [match_id |-> match_id, outcome |-> "empty"])
                /\ pos' = pos + 1
                /\ UNCHANGED all_match_pscores
    /\ UNCHANGED <<compensated, call, ret, db, snaps, ops, match_ids, run, pc>>

\* lines 316-330: one iteration of the loop over match_ids
FetchMatch ==
    /\ pc = "main" /\ pos < Len(match_ids)
    /\ LET match_id == match_ids[pos + 1]
           response == Provider[match_id]
           got == calculate_match_pscore(response)
       IN  IF response.status # 200 \/ got.raised
           THEN /\ processed' = Append(processed, [match_id |-> match_id, outcome |-> "error"])
                /\ UNCHANGED all_match_pscores
           ELSE IF got.results # <<>>
           THEN /\ all_match_pscores' = Append(all_match_pscores, got.results)
                /\ processed' = Append(processed, [match_id |-> match_id, outcome |-> "results"])
           ELSE /\ processed' = Append(processed, [match_id |-> match_id, outcome |-> "empty"])
                /\ UNCHANGED all_match_pscores
    /\ pos' = pos + 1
    /\ UNCHANGED <<compensated, call, ret, db, snaps, ops, match_ids, run, pc>>

\* lines 332-340: the aggregated p-scores are written and main returns 0
PersistPscores ==
    /\ pc = "main" /\ match_ids # <<>> /\ pos = Len(match_ids)
    /\ db' = IF all_match_pscores # <<>>
             THEN update_player_pscores(db, all_match_pscores) ELSE db
    /\ snaps' = Append(snaps, db')
    /\ ops' = Append(ops, [NoOp EXCEPT !.name = "calculate_pscores",
                              !.fetched = [k \in 1..Len(processed) |-> processed[k].match_id],
                              !.aggregated = all_match_pscores])
    /\ pc' = "costs"
    /\ UNCHANGED <<compensated, call, ret, match_ids, run, pos,
                   all_match_pscores, processed>>

CostOp(inputs, max_cost, dry_run) ==
    [NoOp EXCEPT !.name = "update_database_costs", !.max_cost = max_cost,
                 !.dry_run = dry_run, !.player_ids = inputs.player_ids,
                 !.current_costs = inputs.current_costs, !.pscores = inputs.pscores,
                 !.total_budget = inputs.total_budget]

\* update_costs_by_pscore.py run on the table, then the pipeline run again
\* with the same arguments
UpdateDatabaseCosts ==
    /\ pc = "costs"
    /\ \E max_cost \in {DEFAULT_MAX_COST}, dry_run \in BOOLEAN :
          /\ run = 2 => dry_run = ops[2].dry_run
          /\ db' = update_database_costs(db, max_cost, dry_run)
          /\ ops' = Append(ops, CostOp(cost_inputs(db), max_cost, dry_run))
    /\ snaps' = Append(snaps, db')
    /\ IF run = 1
       THEN /\ run' = 2 /\ pc' = "main" /\ pos' = 0
            /\ all_match_pscores' = <<>> /\ processed' = <<>>
       ELSE /\ pc' = "done"
            /\ UNCHANGED <<run, pos, all_match_pscores, processed>>
    /\ UNCHANGED <<compensated, call, ret, match_ids>>

Next == MainNoMatchIds \/ FetchMatch \/ PersistPscores \/ UpdateDatabaseCosts

Spec == Init /\ [][Next]_vars

\* ------------------------------- update_player_pscores as a function
Entry(u, pw) == [user_id |-> u, pscore |-> pw[1], maps_played |-> pw[2], total_maps |-> 8]

\* (pscore, maps_played) of one player in one match
AggPairs == {<<One, 8>>, <<FromInt(2), 2>>, <<Lit(1, 10), 3>>}

\* One match's results: user 12 (a row of the table) alone, user 7 (no row)
\* alone, or both in either order.
AggMatchResults ==
    {<<Entry(12, pw)>> : pw \in AggPairs}
        \cup {<<Entry(7, <<One, 8>>)>>}
        \cup {<<Entry(12, pw), Entry(7, <<One, 8>>)>> : pw \in AggPairs}
        \cup {<<Entry(7, <<One, 8>>), Entry(12, pw)>> : pw \in AggPairs}

InitAgg ==
    /\ compensated \in BOOLEAN
    /\ call = NoCall /\ ret = NoRet
    /\ db \in PipelineTables
    /\ snaps = <<db>>
    /\ ops = <<>>
    /\ match_ids = <<>> /\ run = 0 /\ pc = "call" /\ pos = 0
    /\ all_match_pscores \in SeqsUpTo(AggMatchResults, MaxAggMatches) \ {<<>>}
    /\ processed = <<>>

CallUpdatePlayerPscores ==
    /\ pc = "call"
    /\ db' = update_player_pscores(db, all_match_pscores)
    /\ snaps' = Append(snaps, db')
    /\ ops' = Append(ops, [NoOp EXCEPT !.name = "update_player_pscores",
                                       !.aggregated = all_match_pscores])
    /\ pc' = "done"
    /\ UNCHANGED <<compensated, call, ret, match_ids, run, pos, all_match_pscores,
                   processed>>

NextAgg == CallUpdatePlayerPscores

SpecAgg == InitAgg /\ [][NextAgg]_vars

\* ------------------------------- update_database_costs on any table
CostCells == {None, Some(0), Some(10000)}
StatCells == {<<None, Some(1)>>, <<Some(One), None>>, <<Some(Zero), Some(0)>>,
              <<Some(One), Some(0)>>, <<Some(FromInt(2)), Some(1)>>,
              <<Some(Lit(5, 10)), Some(2)>>}
CostRows == {Row(45, c, st[1], st[2], st[2]) : c \in CostCells, st \in StatCells}
CostTables == UNION {[1..n -> CostRows] : n \in 1..MaxRows}

InitDbCosts ==
    /\ compensated \in BOOLEAN
    /\ call = NoCall /\ ret = NoRet
    /\ db \in CostTables
    /\ snaps = <<db>>
    /\ ops = <<>>
    /\ match_ids = <<>> /\ run = 0 /\ pc = "call" /\ pos = 0
    /\ all_match_pscores = <<>>
    /\ processed = <<>>

CallUpdateDatabaseCosts ==
    /\ pc = "call"
    /\ \E max_cost \in {DEFAULT_MAX_COST, 9000}, dry_run \in BOOLEAN :
          /\ db' = update_database_costs(db, max_cost, dry_run)
          /\ ops' = Append(ops, CostOp(cost_inputs(db), max_cost, dry_run))
    /\ snaps' = Append(snaps, db')
    /\ pc' = "done"
    /\ UNCHANGED <<compensated, call, ret, match_ids, run, pos, all_match_pscores,
                   processed>>

NextDbCosts == CallUpdateDatabaseCosts

SpecDbCosts == InitDbCosts /\ [][NextDbCosts]_vars

\* ------------------- update_database_costs on far-apart p-scores and costs
WideCostCells == {Some(0), Some(1), Some(10000)}
WideStatCells == {<<Some(<<1, -30>>), Some(1)>>, <<Some(Lit(1, 1000)), Some(2)>>,
                  <<Some(FromInt(1000)), Some(3)>>}
WideRows == {Row(45, c, st[1], st[2], st[2]) : c \in WideCostCells, st \in WideStatCells}
WideTables == UNION {[1..n -> WideRows] : n \in 1..MaxRows}

InitDbWide ==
    /\ compensated \in BOOLEAN
    /\ call = NoCall /\ ret = NoRet
    /\ db \in WideTables
    /\ snaps = <<db>>
    /\ ops = <<>>
    /\ match_ids = <<>> /\ run = 0 /\ pc = "call" /\ pos = 0
    /\ all_match_pscores = <<>>
    /\ processed = <<>>

NextDbWide == CallUpdateDatabaseCosts

SpecDbWide == InitDbWide /\ [][NextDbWide]_vars

\* --------------------------------------------------- claims on update_costs
\* C1: every final cost returned for a non-empty player list, on the
\* proportional path and on the zero-total-weight fallback path, is a multiple
\* of 100 and lies between MIN_COST and max_cost.
C1_FinalCostBounds ==
    ret.path \in {"proportional", "fallback"} =>
        \A k \in 1..Len(ret.new_costs) :
            /\ ret.new_costs[k] % 100 = 0
            /\ MIN_COST <= ret.new_costs[k]
            /\ ret.new_costs[k] <= call.max_cost

\* C2: the total_market_value returned equals the sum of the final costs
\* returned by the same call, on every path.
C2_MarketValueIsSum ==
    ret.path # "none" => ret.total_market_value = SumInt(ret.new_costs)

\* ------------------------------------------------ claims on the pipeline
\* What a match identifier yields for the aggregation, computed from the
\* provider's response alone.
YieldOf(got) == IF got.raised \/ got.results = <<>> THEN <<>> ELSE <<got.results>>

Yield(match_id) ==
    IF Provider[match_id].status # 200 THEN <<>>
    ELSE YieldOf(calculate_match_pscore(Provider[match_id]))

RECURSIVE Yields(_)
Yields(ids) == IF ids = <<>> THEN <<>> ELSE Yield(ids[1]) \o Yields(Tail(ids))

Fails(match_id) ==
    \/ Provider[match_id].status # 200
    \/ \E k \in 1..Len(Provider[match_id].events) :
          Provider[match_id].events[k].kind = "malformed"

\* C3: a match whose fetch or extraction fails never stops main's loop: in
\* the loop every identifier up to the current position has been handled in
\* order, and a finished run has handled all of match_ids, aggregated exactly
\* the results of the matches that yield any, and persisted them.
C3_FailureDoesNotStopLoop ==
    /\ pc = "main" =>
          /\ Len(processed) = pos
          /\ \A k \in 1..pos : processed[k].match_id = match_ids[k]
          /\ \A k \in 1..pos : Fails(match_ids[k]) <=> processed[k].outcome = "error"
          /\ all_match_pscores = Yields(SubSeq(match_ids, 1, pos))
    /\ ops # <<>> =>
          LET yielded == Yields(match_ids)
          IN  \A k \in 1..Len(ops) :
                  (ops[k].name = "calculate_pscores" /\ ops[k].exit = 0) =>
                      /\ ops[k].fetched = match_ids
                      /\ ops[k].aggregated = yielded
                      /\ snaps[k + 1] = IF yielded = <<>> THEN snaps[k]
                                        ELSE update_player_pscores(snaps[k], yielded)

\* C3 happens: a run finished in which the first match failed and the second
\* one's results reached the table.
C3_Witness ==
    /\ pc = "costs" /\ run = 1 /\ Len(processed) = 2
    /\ processed[1].outcome = "error"
    /\ processed[2].outcome = "results"
    /\ db # snaps[1]

PStats(row) == <<row.p_score, row.matches_played, row.total_maps_played>>

SameParams(a, b) == a.max_cost = b.max_cost /\ a.dry_run = b.dry_run

\* C4 as stated: after the pipeline has run a second time with the same
\* inputs, p_score, matches_played, total_maps_played and cost of every
\* player are what they were after the first run.
C4_RerunLeavesEverything ==
    (pc = "done" /\ Len(snaps) = 5 /\ SameParams(ops[2], ops[4])) =>
        \A r \in DOMAIN db : snaps[5][r] = snaps[3][r]

\* C4 for the p-score columns: after the pipeline has run a second time with the same
\* inputs, p_score, matches_played and total_maps_played of every player are
\* what they were after the first run (the cost may have moved again).
C4_RerunLeavesPscores ==
    /\ Len(snaps) >= 4 =>
          \A r \in DOMAIN db : PStats(snaps[4][r]) = PStats(snaps[2][r])
    /\ Len(snaps) >= 5 =>
          \A r \in DOMAIN db : PStats(snaps[5][r]) = PStats(snaps[3][r])

\* C4 happens: both runs wrote p-scores and costs with the same parameters,
\* and the second run moved a cost.
C4_Witness ==
    /\ pc = "done" /\ Len(snaps) = 5 /\ SameParams(ops[2], ops[4])
    /\ ops[1].aggregated # <<>>
    /\ PStats(snaps[2][1]) # PStats(snaps[1][1])
    /\ \E r \in DOMAIN db : snaps[5][r].cost # snaps[3][r].cost

NoGames(match_data) ==
    \A k \in 1..Len(match_data.events) : match_data.events[k].kind = "other"

NoNonzeroScore(match_data) ==
    \A k \in 1..Len(match_data.events) :
        /\ match_data.events[k].kind # "malformed"
        /\ \A j \in 1..Len(match_data.events[k].scores) :
              match_data.events[k].scores[j].score = 0

\* Matches without games or without a non-zero score
EmptyMatches ==
    {[status |-> 200, events |-> es] :
        es \in SeqsUpTo({Other, Game(<<>>), Game(<<Sc(12, 0)>>),
                         Game(<<Sc(0, 0), Sc(3, 0)>>)}, 2)}

\* C10: a match with no game events, or with no non-zero score in any game,
\* makes calculate_match_pscore return an empty result without raising; in
\* main such a match adds nothing to the aggregation input and the loop goes
\* on to the next match.
C10_EmptyMatchIsSkipped ==
    /\ \A m \in EmptyMatches : calculate_match_pscore(m) = NoResults
    /\ \A id \in 1..Len(Provider) :
          (Provider[id].status = 200 /\ (NoGames(Provider[id]) \/ NoNonzeroScore(Provider[id])))
              => calculate_match_pscore(Provider[id]) = NoResults
    /\ pc = "main" =>
          /\ Len(processed) = pos
          /\ \A k \in 1..Len(processed) :
                (Provider[match_ids[k]].status = 200
                    /\ (NoGames(Provider[match_ids[k]])
                          \/ NoNonzeroScore(Provider[match_ids[k]])))
                    => processed[k] = [match_id |-> match_ids[k], outcome |-> "empty"]
          /\ Len(all_match_pscores)
                = Cardinality({k \in 1..Len(processed) : processed[k].outcome = "results"})
          /\ \A k \in 1..Len(all_match_pscores) : all_match_pscores[k] # <<>>
    /\ \A k \in 1..Len(ops) :
          (ops[k].name = "calculate_pscores" /\ ops[k].exit = 0) =>
              /\ ops[k].fetched = match_ids
              /\ \A j \in 1..Len(ops[k].aggregated) : ops[k].aggregated[j] # <<>>

\* C10 happens: a match without a non-zero score was skipped and the match
\* after it was aggregated.
C10_Witness ==
    /\ pc = "costs" /\ run = 1 /\ Len(processed) = 2
    /\ NoNonzeroScore(Provider[match_ids[1]]) /\ ~NoGames(Provider[match_ids[1]])
    /\ processed[1].outcome = "empty"
    /\ processed[2].outcome = "results"
    /\ Len(ops[1].aggregated) = 1

\* ------------------------------------------ claims on update_database_costs
Qualifies(row) ==
    /\ row.p_score # None /\ row.p_score[1][1] > 0
    /\ row.matches_played # None /\ row.matches_played[1] > 0

EffectiveCost(row) ==
    IF row.cost = None \/ row.cost = Some(0) THEN MIN_COST ELSE row.cost[1]

\* C5: update_database_costs changes the cost only of players with
\* p_score > 0 and matches_played > 0; every other player keeps the stored
\* cost and is left out of the player count and of the budget the
\* reallocation is computed from.
C5_OnlyQualifyingPlayers ==
    \A k \in 1..Len(ops) :
        ops[k].name = "update_database_costs" =>
            LET before == snaps[k]
                after == snaps[k + 1]
                q == {r \in DOMAIN before : Qualifies(before[r])}
            IN  /\ \A r \in DOMAIN before \ q : after[r] = before[r]
                /\ \A r \in q : PStats(after[r]) = PStats(before[r])
                /\ {ops[k].player_ids[j] : j \in 1..Len(ops[k].player_ids)} = q
                /\ Len(ops[k].player_ids) = Cardinality(q)
                /\ Len(ops[k].current_costs) = Cardinality(q)
                /\ Len(ops[k].pscores) = Cardinality(q)
                /\ \A j \in 1..Len(ops[k].player_ids) :
                      /\ ops[k].current_costs[j] = EffectiveCost(before[ops[k].player_ids[j]])
                      /\ ops[k].pscores[j] = before[ops[k].player_ids[j]].p_score[1]
                /\ ops[k].total_budget = SumInt(ops[k].current_costs)

\* C5 happens: a row with a positive p_score and no match played stood beside
\* a qualifying row whose cost was rewritten.
C5_Witness ==
    /\ pc = "done" /\ Len(db) = 2 /\ ~ops[1].dry_run
    /\ snaps[1][1].p_score = Some(One) /\ snaps[1][1].matches_played = Some(0)
    /\ Qualifies(snaps[1][2])
    /\ db[2].cost # snaps[1][2].cost
    /\ db[1] = snaps[1][1]

\* C6: with dry_run set, update_database_costs writes nothing: the table is
\* the same before and after.
C6_DryRunWritesNothing ==
    \A k \in 1..Len(ops) :
        (ops[k].name = "update_database_costs" /\ ops[k].dry_run) =>
            snaps[k + 1] = snaps[k]

\* C6 happens: a dry run on a table whose costs a real run would have changed.
C6_Witness ==
    /\ pc = "done" /\ ops[1].dry_run /\ ops[1].player_ids # <<>>
    /\ db = snaps[1]
    /\ reallocate(snaps[1], cost_inputs(snaps[1]), ops[1].max_cost) # snaps[1]

\* ------------------------------------------ claims on update_player_pscores
EntriesOf(table, r) ==
    SelectSeq(Concat(all_match_pscores),
              LAMBDA e : get_user_id_by_profile_url(table, e.user_id) = r)

MapsOf(es) == SumInt([j \in 1..Len(es) |-> es[j].maps_played])

\* C7: for every resolved player update_player_pscores stores the mean of
\* the player's per-match p-scores weighted by maps played, the number of
\* the player's match entries as matches_played, and the sum of the maps
\* played as total_maps_played.
C7_WeightedMeanPersisted ==
    \A k \in 1..Len(ops) :
        ops[k].name = "update_player_pscores" =>
            \A r \in DOMAIN snaps[k] :
                LET mine == EntriesOf(snaps[k], r)
                IN  (mine # <<>> /\ MapsOf(mine) > 0) =>
                        /\ snaps[k + 1][r].p_score =
                              Some(FDiv(PySum([j \in 1..Len(mine) |->
                                                  FMul(mine[j].pscore,
                                                       FromInt(mine[j].maps_played))]),
                                        FromInt(MapsOf(mine))))
                        /\ snaps[k + 1][r].matches_played = Some(Len(mine))
                        /\ snaps[k + 1][r].total_maps_played = Some(MapsOf(mine))

\* C7 happens: p-scores 1.0 over 8 maps and 2.0 over 2 maps gave 1.2, two
\* matches and ten maps.
C7_Witness ==
    /\ pc = "done"
    /\ all_match_pscores = <<<<Entry(12, <<One, 8>>)>>, <<Entry(12, <<FromInt(2), 2>>)>>>>
    /\ db[1].p_score = Some(Lit(12, 10))
    /\ db[1].matches_played = Some(2)
    /\ db[1].total_maps_played = Some(10)

Perms(n) == {f \in [1..n -> 1..n] : \A a, b \in 1..n : f[a] = f[b] => a = b}

\* C8: the aggregate a player ends with does not depend on the order in which
\* the match results are supplied.
C8_OrderIndependent ==
    \A k \in 1..Len(ops) :
        ops[k].name = "update_player_pscores" =>
            \A f \in Perms(Len(ops[k].aggregated)) :
                update_player_pscores(snaps[k],
                    [j \in 1..Len(ops[k].aggregated) |-> ops[k].aggregated[f[j]]])
                    = snaps[k + 1]

Resolved(table, match_pscores) ==
    [k \in 1..Len(match_pscores) |->
        SelectSeq(match_pscores[k],
                  LAMBDA e : get_user_id_by_profile_url(table, e.user_id) # 0)]

\* C9: an entry whose player resolves to no row is skipped: the table ends as
\* it would have without that entry, and the rows no entry resolves to are
\* left as they were.
C9_UnresolvedSkipped ==
    \A k \in 1..Len(ops) :
        ops[k].name = "update_player_pscores" =>
            /\ snaps[k + 1] = update_player_pscores(snaps[k],
                                  Resolved(snaps[k], ops[k].aggregated))
            /\ \A r \in DOMAIN snaps[k] :
                  EntriesOf(snaps[k], r) = <<>> => snaps[k + 1][r] = snaps[k][r]

\* C9 happens: an entry without a row came before an entry with one, and the
\* latter was stored.
C9_Witness ==
    /\ pc = "done"
    /\ all_match_pscores = <<<<Entry(7, <<One, 8>>), Entry(12, <<FromInt(2), 2>>)>>>>
    /\ db[1].p_score = Some(FromInt(2))
    /\ db[1].matches_played = Some(1)
    /\ db[2] = snaps[1][2]

\* ------------------------------------------ claims on the worked example
\* |x - n/d| <= t/d for a float x
Near(x, n, d, t) ==
    IF x[2] >= 0 THEN Abs(d * x[1] * Pow2(x[2]) - n) <= t
    ELSE Abs(d * x[1] - n * Pow2(-x[2])) <= t * Pow2(-x[2])

ExampleCall ==
    [current_costs |-> <<10000, 8000, 6000>>,
     pscores |-> <<FromInt(2), One, Lit(5, 10)>>,
     total_budget |-> 24000, max_cost |-> DEFAULT_MAX_COST]

ExampleAvg == FDiv(PySum(ExampleCall.pscores), FromInt(3))

ExampleRatios == [k \in 1..3 |-> FDiv(ExampleCall.pscores[k], ExampleAvg)]

ExampleMultipliers == multipliers_of(ExampleCall.pscores, ExampleAvg)

ExampleWeights == weights_of(ExampleMultipliers, ExampleCall.current_costs)

ExampleOutcome ==
    /\ ret.total_market_value = SumInt(ret.new_costs)
    /\ ret.new_costs[1] > 10000
    /\ ret.new_costs[3] >= MIN_COST

\* C11 as stated: on costs [10000, 8000, 6000] with p-scores [2.0, 1.0, 0.5],
\* budget 24000 and the default max_cost the ratios are about 1.714, 0.857,
\* 0.429, the multipliers about 1.357, 0.989, 0.840, the weights about 13570,
\* 7909, 5038, the final costs sum to total_market_value, the first cost
\* exceeds 10000 and the last is at least MIN_COST.
C11_ExampleAsStated ==
    (call = ExampleCall /\ ret.path # "none") =>
        /\ Near(ExampleRatios[1], 1714, 1000, 1)
        /\ Near(ExampleRatios[2], 857, 1000, 1)
        /\ Near(ExampleRatios[3], 429, 1000, 1)
        /\ Near(ExampleMultipliers[1], 1357, 1000, 1)
        /\ Near(ExampleMultipliers[2], 989, 1000, 1)
        /\ Near(ExampleMultipliers[3], 840, 1000, 1)
        /\ Near(ExampleWeights[1], 13570, 1, 10)
        /\ Near(ExampleWeights[2], 7909, 1, 10)
        /\ Near(ExampleWeights[3], 5038, 1, 10)
        /\ ExampleOutcome

\* C11 with the values the code computes: the ratios are about 1.714, 0.857,
\* 0.429, the multipliers about 1.357, 0.964, 0.857, the weights about 13571,
\* 7714, 5143, the final costs sum to total_market_value, the first cost
\* exceeds 10000 and the last is at least MIN_COST.
C11_ExampleAsComputed ==
    (call = ExampleCall /\ ret.path # "none") =>
        /\ Near(ExampleRatios[1], 1714, 1000, 1)
        /\ Near(ExampleRatios[2], 857, 1000, 1)
        /\ Near(ExampleRatios[3], 429, 1000, 1)
        /\ Near(ExampleMultipliers[1], 1357, 1000, 1)
        /\ Near(ExampleMultipliers[2], 964, 1000, 1)
        /\ Near(ExampleMultipliers[3], 857, 1000, 1)
        /\ Near(ExampleWeights[1], 13571, 1, 10)
        /\ Near(ExampleWeights[2], 7714, 1, 10)
        /\ Near(ExampleWeights[3], 5143, 1, 10)
        /\ ExampleOutcome

\* C11 happens: the call returned 11000, 7000 and 5000, in all 23000.
C11_Witness ==
    /\ call = ExampleCall
    /\ ret = [new_costs |-> <<11000, 7000, 5000>>, total_market_value |-> 23000,
              path |-> "proportional"]

\* ------------------------------------------ claims on the target shares
\* the least exponent among the floats of xs that are not zero (0 if none)
MinExp(xs) ==
    LET es == {xs[k][2] : k \in {j \in 1..Len(xs) : xs[j][1] # 0}}
    IN  IF es = {} THEN 0 ELSE CHOOSE e \in es : \A f \in es : e <= f

\* the exact sum of the floats xs, in units of 2^e for an e below every exponent
ExactSum(xs, e) ==
    SumInt([k \in 1..Len(xs) |-> IF xs[k][1] = 0 THEN 0 ELSE xs[k][1] * Pow2(xs[k][2] - e)])

\* the target shares of the call in call, as update_costs computes them
CallTargets ==
    LET targets(weights) == target_shares_of(weights, PySum(weights), call.total_budget)
    IN  targets(weights_of(multipliers_of(call.pscores,
                                          FDiv(PySum(call.pscores),
                                               FromInt(Len(call.current_costs)))),
                           call.current_costs))

\* C12: on the proportional path the target shares, before clamping and
\* flooring, sum to exactly total_budget.
C12_TargetsSumToBudget ==
    ret.path = "proportional" =>
        LET e == MinI(0, MinExp(CallTargets))
        IN  ExactSum(CallTargets, e) = call.total_budget * Pow2(-e)

\* ------------------------------ claims on what update_database_costs passes
OpMultipliers(op) ==
    multipliers_of(op.pscores, FDiv(PySum(op.pscores), FromInt(Len(op.current_costs))))

\* the multipliers, the weights and their total that update_costs derives
\* from the inputs recorded in op
OpWeighing(op) ==
    LET weighed(multipliers, weights) ==
            [multipliers |-> multipliers, weights |-> weights, total |-> PySum(weights)]
        weigh(multipliers) == weighed(multipliers, weights_of(multipliers, op.current_costs))
    IN  weigh(OpMultipliers(op))

PositiveInputs(op, w) ==
    /\ \A j \in 1..Len(op.pscores) : op.pscores[j][1] > 0
    /\ \A j \in 1..Len(op.current_costs) : op.current_costs[j] > 0
    /\ \A j \in 1..Len(w.multipliers) : FGe(w.multipliers[j], Lit(3, 4))
    /\ \A j \in 1..Len(w.weights) : w.weights[j][1] > 0
    /\ w.total[1] > 0

\* C13: for the inputs update_database_costs passes to update_costs from a
\* table whose costs are not negative, every multiplier is at least 0.75 and
\* every weight is positive, so the total weight is positive and update_costs
\* does not take the equal-split fallback.
C13_FallbackNeverTaken ==
    \A k \in 1..Len(ops) :
        (ops[k].name = "update_database_costs" /\ ops[k].player_ids # <<>>) =>
            /\ PositiveInputs(ops[k], OpWeighing(ops[k]))
            /\ update_costs(ops[k].current_costs, ops[k].pscores, ops[k].total_budget,
                            ops[k].max_cost).path = "proportional"

\* C13 happens: a player with a far smaller p-score than the other and the
\* cost 1 got exactly the multiplier 0.75, and the costs were rewritten.
C13_Witness ==
    /\ pc = "done" /\ ~ops[1].dry_run
    /\ ops[1].current_costs = <<1, 10000>>
    /\ ops[1].pscores = <<<<1, -30>>, FromInt(1000)>>
    /\ OpMultipliers(ops[1])[1] = Lit(3, 4)
    /\ db[1].cost = Some(MIN_COST)

====
